---- MODULE Spec2Model ----
(***************************************************************************)
(* CirqDevice (pennylane_cirq/cirq_device.py): the PennyLane device that   *)
(* translates PennyLane operations into Cirq gate applications.            *)
(*                                                                         *)
(* The state is the class-level operation map, the device most recently    *)
(* constructed (its qubit list, its inverse operation map, its circuit)    *)
(* and a record of the last call made on it (arguments and outcome).       *)
(* The operations are the constructor, reset(), pre_apply() and apply().   *)
(***************************************************************************)
EXTENDS Naturals, Integers, Sequences, FiniteSets, TLC

(***************************************************************************)
(* Bounds of the model.                                                    *)
(***************************************************************************)
\* wires argument of the constructor ranges over 1..MaxWires
MaxWires == 3
\* operations passed to apply between two resets
MaxOps == 2
\* length of the rotations argument of apply
MaxRots == 1

(***************************************************************************)
(* Values of the wrapped libraries.                                        *)
(***************************************************************************)
\* pennylane.operation.Operation.string_for_inverse
StringForInverse == ".inv"

\* cirq.LineQubit(x)
LineQubit(x) == [kind |-> "LineQubit", x |-> x]

\* a qubit of another kind, as a user may pass in the qubits argument
GridQubit(x) == [kind |-> "GridQubit", x |-> x]

\* a Cirq gate: its constructor, its argument (0 for a constant gate),
\* whether it is wrapped in cirq.ControlledGate, whether it is inverted
Gate(name, arg) == [gate |-> name, arg |-> arg, controlled |-> FALSE, inverse |-> FALSE]

\* cirq.ControlledGate(g)
ControlledGate(g) == [g EXCEPT !.controlled = TRUE]

\* cirq.inverse(g) of a single gate
InverseGate(g) == [g EXCEPT !.inverse = ~@]

Reverse(s) == [i \in 1..Len(s) |-> s[Len(s) + 1 - i]]

\* cirq.inverse(gates) of a list: the inverted gates in reversed order
InverseGates(gates) == Reverse([i \in 1..Len(gates) |-> InverseGate(gates[i])])

(***************************************************************************)
(* cirq_interface: CirqOperation and unitary_matrix_gate.                  *)
(***************************************************************************)
\* the None entry of the operation map
None == [isNone |-> TRUE, parametrization |-> "", is_inverse |-> FALSE]

\* CirqOperation(parametrization): a new, un-inverted operation
CirqOperation(parametrization) ==
    [isNone |-> FALSE, parametrization |-> parametrization, is_inverse |-> FALSE]

\* CirqOperation.inv(): toggles is_inverse (in place)
inv(op) == [op EXCEPT !.is_inverse = ~@]

\* unitary_matrix_gate(U): the matrix gate of the unitary U
unitary_matrix_gate(U) == Gate("MatrixGate", U)

(***************************************************************************)
(* CirqDevice._operation_map: the parametrization of every entry, as the   *)
(* list of gates the lambda returns for the parameters.                    *)
(***************************************************************************)
ForwardNames ==
    { "BasisState", "QubitStateVector", "QubitUnitary", "PauliX", "PauliY",
      "PauliZ", "Hadamard", "S", "T", "CNOT", "SWAP", "CZ", "PhaseShift",
      "RX", "RY", "RZ", "Rot", "CRX", "CRY", "CRZ", "CRot", "CSWAP", "Toffoli" }

NoneNames == { "BasisState", "QubitStateVector" }

\* the Rot lambda with its last two gates exchanged
RotGatesSwapped(a) == << Gate("Rz", a[1]), Gate("Rz", a[3]), Gate("Ry", a[2]) >>

\* "Rot": lambda a, b, c: [cirq.Rz(a), cirq.Ry(b), cirq.Rz(c)]
RotGates(a) == << Gate("Rz", a[1]), Gate("Ry", a[2]), Gate("Rz", a[3]) >>

\* "CRot": the three controlled gates
CRotGates(a) ==
    << ControlledGate(Gate("Rz", a[1])),
       ControlledGate(Gate("Ry", a[2])),
       ControlledGate(Gate("Rz", a[3])) >>

Parametrization(p, a) ==
    CASE p = "QubitUnitary" -> << unitary_matrix_gate(a[1]) >>
      [] p = "PauliX" -> << Gate("X", 0) >>
      [] p = "PauliY" -> << Gate("Y", 0) >>
      [] p = "PauliZ" -> << Gate("Z", 0) >>
      [] p = "Hadamard" -> << Gate("H", 0) >>
      [] p = "S" -> << Gate("S", 0) >>
      [] p = "T" -> << Gate("T", 0) >>
      [] p = "CNOT" -> << Gate("CNOT", 0) >>
      [] p = "SWAP" -> << Gate("SWAP", 0) >>
      [] p = "CZ" -> << Gate("CZ", 0) >>
      [] p = "PhaseShift" -> << Gate("ZPowGate_phi_over_pi", a[1]) >>
      [] p = "RX" -> << Gate("Rx", a[1]) >>
      [] p = "RY" -> << Gate("Ry", a[1]) >>
      [] p = "RZ" -> << Gate("Rz", a[1]) >>
      [] p = "Rot" -> RotGates(a)
      [] p = "CRX" -> << ControlledGate(Gate("Rx", a[1])) >>
      [] p = "CRY" -> << ControlledGate(Gate("Ry", a[1])) >>
      [] p = "CRZ" -> << ControlledGate(Gate("Rz", a[1])) >>
      [] p = "CRot" -> CRotGates(a)
      [] p = "CSWAP" -> << Gate("CSWAP", 0) >>
      [] p = "Toffoli" -> << Gate("TOFFOLI", 0) >>

\* the class attribute _operation_map as the class body creates it
InitialOperationMap ==
    [k \in ForwardNames |-> IF k \in NoneNames THEN None ELSE CirqOperation(k)]

\* CirqOperation.parametrize(*args): the gates of the parametrization, inverted
\* (and in reversed order) when the operation is an inverse
parametrize(op, args) ==
    LET gates == Parametrization(op.parametrization, args)
    IN  IF op.is_inverse THEN InverseGates(gates) ELSE gates

\* CirqOperation.apply(*qubits): every parametrized gate on the qubits
applyGates(gates, qs) == [i \in 1..Len(gates) |-> [gate |-> gates[i], qubits |-> qs]]

(***************************************************************************)
(* State.                                                                  *)
(***************************************************************************)
VARIABLES
    operation_map,          \* CirqDevice._operation_map (class attribute, shared)
    devices,                \* constructor calls so far: "none", "one" or "several"
    has_device,             \* the last constructor call returned a device
    num_wires,              \* the wires argument of the last constructor call
    given_qubits,           \* the qubits argument of the last constructor call
    qubits,                 \* self.qubits
    inverse_operation_map,  \* self._inverse_operation_map
    complete_operation_map, \* self._complete_operation_map
    circuit,                \* self.circuit
    last_call,              \* the call made last
    error,                  \* the exception the last call raised, or "none"
    circuit_before,         \* self.circuit when apply was entered, if apply was the last call
    operations,             \* the operations argument of that apply
    rotations,              \* the rotations argument of that apply
    used,                   \* operations passed to apply since the circuit was created
    was_reset,              \* reset() has run on this device
    replaced_gates          \* the last call was a reset of a circuit that held gates

vars ==
    << operation_map, devices, has_device, num_wires, given_qubits, qubits,
       inverse_operation_map, complete_operation_map, circuit, last_call, error,
       circuit_before, operations, rotations, used, was_reset, replaced_gates >>

\* self.circuit = None
NoCircuit == [isNone |-> TRUE, ops |-> << >>]

\* cirq.Circuit()
EmptyCircuit == [isNone |-> FALSE, ops |-> << >>]

\* the qubits argument: None (the default) or a list
NoQubits == [isNone |-> TRUE, list |-> << >>]
QubitList(l) == [isNone |-> FALSE, list |-> l]

\* a dict without entries
EmptyMap == [k \in {} |-> None]

(***************************************************************************)
(* CirqDevice.__init__                                                     *)
(***************************************************************************)
\* `if qubits:` -- Python truth of the argument: neither None nor empty
Truthy(q) == ~q.isNone /\ Len(q.list) > 0

\* [cirq.LineQubit(wire) for wire in range(wires)]
DefaultQubits(wires) == [i \in 1..wires |-> LineQubit(i - 1)]

\* the inverse is made by inverting the shared forward entry itself
InvertedOperationInPlace(forward) ==
    [forward |-> inv(forward), inverted |-> inv(forward)]

\* one round of the loop that adds the inverse operations: a new CirqOperation
\* of the forward entry's parametrization is inverted; the forward entry stays
InvertedOperation(forward) ==
    [forward |-> forward, inverted |-> inv(CirqOperation(forward.parametrization))]

\* the keys the loop does not skip
InvertibleKeys(map) == {key \in DOMAIN map : ~map[key].isNone}

\* the forward key of key + Operation.string_for_inverse
ForwardKey ==
    [k \in {key \o StringForInverse : key \in ForwardNames} |->
        CHOOSE key \in ForwardNames : key \o StringForInverse = k]

\* self._inverse_operation_map after the loop
InverseOperationMap(map) ==
    [k \in {key \o StringForInverse : key \in InvertibleKeys(map)} |->
        InvertedOperation(map[ForwardKey[k]]).inverted]

\* the class attribute after the loop
OperationMapAfter(map) ==
    [key \in DOMAIN map |->
        IF map[key].isNone THEN map[key] ELSE InvertedOperation(map[key]).forward]

\* {**a, **b}
Merge(a, b) ==
    [k \in DOMAIN a \cup DOMAIN b |-> IF k \in DOMAIN b THEN b[k] ELSE a[k]]

\* the qubit lists a caller passes: None, or a list of 0..MaxWires qubits
Grid(n) == [i \in 1..n |-> GridQubit(i - 1)]
QubitArguments ==
    {NoQubits} \cup {QubitList(Grid(n)) : n \in 0..MaxWires}

Construct(wires, q) ==
    /\ devices' = IF devices = "none" THEN "one" ELSE "several"
    /\ last_call' = "__init__"
    /\ num_wires' = wires
    /\ given_qubits' = q
    /\ circuit' = NoCircuit
    /\ was_reset' = FALSE
    /\ replaced_gates' = FALSE
    /\ used' = 0
    /\ circuit_before' = NoCircuit
    /\ operations' = << >>
    /\ rotations' = << >>
    /\ IF Truthy(q) /\ wires # Len(q.list)
       THEN /\ error' = "DeviceError"
            /\ has_device' = FALSE
            /\ qubits' = << >>
            /\ inverse_operation_map' = EmptyMap
            /\ complete_operation_map' = EmptyMap
            /\ UNCHANGED operation_map
       ELSE /\ error' = "none"
            /\ has_device' = TRUE
            /\ qubits' = IF Truthy(q) THEN q.list ELSE DefaultQubits(wires)
            /\ inverse_operation_map' = InverseOperationMap(operation_map)
            /\ operation_map' = OperationMapAfter(operation_map)
            /\ complete_operation_map' =
                   Merge(OperationMapAfter(operation_map),
                         InverseOperationMap(operation_map))

(***************************************************************************)
(* CirqDevice.reset and CirqDevice.pre_apply                               *)
(***************************************************************************)
\* reset() that creates a circuit only when there is none
KeepCircuit(c) == IF c.isNone THEN EmptyCircuit ELSE c

\* self.circuit = cirq.Circuit()
NewCircuit(c) == EmptyCircuit

Reset ==
    /\ has_device
    /\ circuit' = NewCircuit(circuit)
    /\ was_reset' = TRUE
    /\ replaced_gates' = (Len(circuit.ops) > 0)
    /\ used' = 0
    /\ error' = "none"
    /\ last_call' = "reset"
    /\ circuit_before' = NoCircuit
    /\ operations' = << >>
    /\ rotations' = << >>
    /\ UNCHANGED << operation_map, devices, has_device, num_wires, given_qubits,
                    qubits, inverse_operation_map, complete_operation_map >>

PreApply ==
    /\ has_device
    /\ circuit' = NewCircuit(circuit)
    /\ was_reset' = TRUE
    /\ replaced_gates' = (Len(circuit.ops) > 0)
    /\ used' = 0
    /\ error' = "none"
    /\ last_call' = "pre_apply"
    /\ circuit_before' = NoCircuit
    /\ operations' = << >>
    /\ rotations' = << >>
    /\ UNCHANGED << operation_map, devices, has_device, num_wires, given_qubits,
                    qubits, inverse_operation_map, complete_operation_map >>

(***************************************************************************)
(* The operations a caller passes to apply: PennyLane operations the       *)
(* device declares as supported (CirqDevice.operations and their           *)
(* inverses), with the parameters and wires PennyLane admits for them.     *)
(***************************************************************************)
\* pennylane Operation.num_params
NumParams(name) ==
    CASE name \in {"BasisState", "QubitStateVector", "QubitUnitary", "PhaseShift",
                   "RX", "RY", "RZ", "CRX", "CRY", "CRZ"} -> 1
      [] name \in {"Rot", "CRot"} -> 3
      [] OTHER -> 0

\* pennylane Operation.num_wires (QubitUnitary is taken on one wire)
NumWires(name) ==
    CASE name \in {"CNOT", "SWAP", "CZ", "CRX", "CRY", "CRZ", "CRot"} -> 2
      [] name \in {"CSWAP", "Toffoli"} -> 3
      [] OTHER -> 1

\* an operation; an inverted operation carries the name with the inverse suffix
Op(name, inverse, parameters, wires) ==
    [name |-> IF inverse THEN name \o StringForInverse ELSE name,
     parameters |-> parameters, wires |-> wires]

\* the parameters an operation is given
ParametersOf(name) ==
    CASE NumParams(name) = 0 -> { << >> }
      [] NumParams(name) = 1 -> { << 1 >>, << 2 >> }
      [] NumParams(name) = 3 -> { << 1, 2, 3 >>, << 3, 1, 2 >> }

\* k distinct wires of a device of w wires, in any order
WireTuples(w, k) ==
    {t \in [1..k -> 0..(w - 1)] : \A i, j \in 1..k : i # j => t[i] # t[j]}

AllWires(w) == [i \in 1..w |-> i - 1]

StatePreparations(w) ==
    {Op(name, FALSE, << 1 >>, AllWires(w)) : name \in NoneNames}

\* every supported operation on a device of w wires
AllOps(w) ==
    StatePreparations(w) \cup
    UNION {{Op(name, i, p, t) : i \in BOOLEAN, p \in ParametersOf(name),
                                 t \in WireTuples(w, NumWires(name))}
           : name \in ForwardNames \ NoneNames}

\* the operations that operation lists are built from
CoreOps(w) ==
    StatePreparations(w) \cup
    { Op("PauliX", FALSE, << >>, << 0 >>),
      Op("Rot", FALSE, << 1, 2, 3 >>, << w - 1 >>),
      Op("RY", TRUE, << 2 >>, << 0 >>) } \cup
    (IF w >= 2 THEN { Op("CNOT", FALSE, << >>, << 1, 0 >>) } ELSE {})

\* the diagonalizing gates that rotation lists are built from; the rotations
\* argument None stands for the empty list (`rotations = rotations or []`)
RotationOps(w) ==
    { Op("Hadamard", FALSE, << >>, << w - 1 >>) }

SeqsUpTo(S, n) == UNION {[1..k -> S] : k \in 0..n}

\* the arguments of apply: operation lists over CoreOps within what is left of
\* MaxOps with rotation lists over RotationOps, and, on a circuit that has not
\* been applied to, every single supported operation without rotations
ApplyArguments(w, n) ==
    (SeqsUpTo(CoreOps(w), MaxOps - n) \X SeqsUpTo(RotationOps(w), MaxRots)) \cup
    (IF n = 0 THEN {<< << o >>, << >> >> : o \in AllOps(w)} ELSE {})

\* what a list takes of MaxOps: its length; a single operation outside
\* CoreOps closes the evaluation
Cost(w, ops) ==
    IF Len(ops) = 1 /\ ops[1] \notin CoreOps(w) THEN MaxOps ELSE Len(ops)

(***************************************************************************)
(* CirqDevice.apply                                                        *)
(***************************************************************************)
\* a dict key: a string (an operation name) or an object that is not a string
NameKey(name) == [isName |-> TRUE, name |-> name]
ObjectKey(operation) == [isName |-> FALSE, name |-> operation.name]

\* d[key] raises KeyError unless key is a string among the keys of d
HasKey(d, key) == key.isName /\ key.name \in DOMAIN d

\* the key of the first loop: operation.name
OperationKey(operation) == NameKey(operation.name)

\* the key of the second loop: the operation object itself
RotationKey(operation) == ObjectKey(operation)

\* wires are looked up in cirq.LineQubit instead of self.qubits
LineQubitsFor(qs, wires) == [i \in 1..Len(wires) |-> LineQubit(wires[i])]

\* [self.qubits[wire] for wire in operation.wires]
QubitsFor(qs, wires) == [i \in 1..Len(wires) |-> qs[wires[i] + 1]]

\* the state preparation check taken one index too late
AfterSecond(i) == i > 2

\* `if i > 0` of enumerate(operations); the lists of the model start at 1
NotAtBeginning(i) == i > 1

\* cirq_operation.parametrize(*operation.parameters) and
\* cirq_operation.apply(*[self.qubits[wire] for wire in operation.wires])
Translate(cirq_operation, operation) ==
    applyGates(parametrize(cirq_operation, operation.parameters),
               QubitsFor(qubits, operation.wires))

\* the outcome of a loop: the circuit and the exception raised, or "none"
Outcome(c, e) == [circuit |-> c, error |-> e]

\* self.circuit.append(gates): None has no append
AppendTo(c, gates) ==
    IF c.isNone THEN Outcome(c, "AttributeError")
    ELSE Outcome([c EXCEPT !.ops = @ \o gates], "none")

\* the else branch of the first loop and the body of the second: look the
\* operation up, and unless the entry is None, parametrize, apply and append
TranslateAndAppend(c, key, operation) ==
    IF ~HasKey(complete_operation_map, key) THEN Outcome(c, "KeyError")
    ELSE LET cirq_operation == complete_operation_map[key.name]
         IN  IF cirq_operation.isNone THEN Outcome(c, "none")
             ELSE AppendTo(c, Translate(cirq_operation, operation))

\* the first loop with the gates put in front of the circuit
RECURSIVE RunOperationsPrepending(_, _, _)
RunOperationsPrepending(c, ops, i) ==
    IF i > Len(ops) THEN Outcome(c, "none")
    ELSE IF ops[i].name \in {"BasisState", "QubitStateVector"}
         THEN IF NotAtBeginning(i) THEN Outcome(c, "DeviceError")
              ELSE RunOperationsPrepending(c, ops, i + 1)
         ELSE LET r == TranslateAndAppend([c EXCEPT !.ops = << >>],
                                          OperationKey(ops[i]), ops[i])
              IN  IF r.error # "none" THEN Outcome(c, r.error)
                  ELSE RunOperationsPrepending(
                           [c EXCEPT !.ops = r.circuit.ops \o @], ops, i + 1)

\* for i, operation in enumerate(operations): ...
RECURSIVE RunOperations(_, _, _)
RunOperations(c, ops, i) ==
    IF i > Len(ops) THEN Outcome(c, "none")
    ELSE IF ops[i].name = "BasisState"
         THEN IF NotAtBeginning(i) THEN Outcome(c, "DeviceError")
              ELSE RunOperations(c, ops, i + 1)    \* apply_basis_state: pass
    ELSE IF ops[i].name = "QubitStateVector"
         THEN IF NotAtBeginning(i) THEN Outcome(c, "DeviceError")
              ELSE RunOperations(c, ops, i + 1)    \* apply_qubit_state_vector: pass
    ELSE LET r == TranslateAndAppend(c, OperationKey(ops[i]), ops[i])
         IN  IF r.error # "none" THEN r ELSE RunOperations(r.circuit, ops, i + 1)

\* for operation in rotations: ...
RECURSIVE RunRotations(_, _, _)
RunRotations(c, rots, i) ==
    IF i > Len(rots) THEN Outcome(c, "none")
    ELSE LET r == TranslateAndAppend(c, RotationKey(rots[i]), rots[i])
         IN  IF r.error # "none" THEN r ELSE RunRotations(r.circuit, rots, i + 1)

\* apply that leaves the circuit as it found it when it raises
ApplyAtomic(c, ops, rots) ==
    LET first == RunOperations(c, ops, 1)
        r == IF first.error # "none" THEN first ELSE RunRotations(first.circuit, rots, 1)
    IN  IF r.error # "none" THEN Outcome(c, r.error) ELSE r

\* the body of apply: the first loop, then the second
ApplyBody(c, ops, rots) ==
    LET first == RunOperations(c, ops, 1)
    IN  IF first.error # "none" THEN first ELSE RunRotations(first.circuit, rots, 1)

Apply(ops, rots) ==
    /\ has_device
    /\ circuit_before' = circuit
    /\ operations' = ops
    /\ rotations' = rots
    /\ used' = used + Cost(num_wires, ops)
    /\ last_call' = "apply"
    /\ replaced_gates' = FALSE
    /\ circuit' = ApplyBody(circuit, ops, rots).circuit
    /\ error' = ApplyBody(circuit, ops, rots).error
    /\ UNCHANGED << operation_map, devices, has_device, num_wires, given_qubits,
                    qubits, inverse_operation_map, complete_operation_map,
                    was_reset >>

(***************************************************************************)
(* Specification.                                                          *)
(***************************************************************************)
Init ==
    /\ operation_map = InitialOperationMap
    /\ devices = "none"
    /\ has_device = FALSE
    /\ num_wires = 1
    /\ given_qubits = NoQubits
    /\ qubits = << >>
    /\ inverse_operation_map = EmptyMap
    /\ complete_operation_map = EmptyMap
    /\ circuit = NoCircuit
    /\ last_call = "import"
    /\ error = "none"
    /\ circuit_before = NoCircuit
    /\ operations = << >>
    /\ rotations = << >>
    /\ used = 0
    /\ was_reset = FALSE
    /\ replaced_gates = FALSE

Next ==
    \/ \E wires \in 1..MaxWires, q \in QubitArguments : Construct(wires, q)
    \/ Reset
    \/ PreApply
    \/ \E args \in ApplyArguments(num_wires, used) : Apply(args[1], args[2])

Spec == Init /\ [][Next]_vars

(***************************************************************************)
(* Properties.                                                             *)
(***************************************************************************)
AfterApply == last_call = "apply"

IsStatePreparation(operation) == operation.name \in {"BasisState", "QubitStateVector"}

\* the qubits an operation acts on: the entries of self.qubits at its wires
QubitsAtWires(operation) ==
    [i \in 1..Len(operation.wires) |-> qubits[operation.wires[i] + 1]]

\* the gates one entry of operations or rotations stands for
GatesOf(operation) ==
    IF IsStatePreparation(operation) THEN << >>
    ELSE IF complete_operation_map[operation.name].isNone THEN << >>
    ELSE applyGates(parametrize(complete_operation_map[operation.name],
                                operation.parameters),
                    QubitsAtWires(operation))

\* the gates of a list of entries, in list order
RECURSIVE GatesOfList(_)
GatesOfList(ops) ==
    IF Len(ops) = 0 THEN << >> ELSE GatesOf(Head(ops)) \o GatesOfList(Tail(ops))

\* the indices after the first that hold a state preparation
MisplacedAt(ops) == {i \in 2..Len(ops) : IsStatePreparation(ops[i])}

\* the first of them
FirstMisplaced(ops) == CHOOSE i \in MisplacedAt(ops) : \A j \in MisplacedAt(ops) : i <= j

\* C1: whenever a qubits list is passed to the constructor and its length
\* differs from wires, construction raises DeviceError and produces no device.
C1_MismatchRaises ==
    (last_call = "__init__" /\ ~given_qubits.isNone
        /\ Len(given_qubits.list) # num_wires)
    => (error = "DeviceError" /\ ~has_device)

\* C2: after a successful construction len(self.qubits) = wires; without a
\* qubits argument self.qubits is LineQubit(0..wires-1) in order; with a
\* qubits argument self.qubits is that list unchanged.
C2_QubitList ==
    has_device =>
        /\ Len(qubits) = num_wires
        /\ given_qubits.isNone => qubits = [i \in 1..num_wires |-> LineQubit(i - 1)]
        /\ ~given_qubits.isNone => qubits = given_qubits.list

\* C3 as stated: a state preparation at any index i > 0 makes apply raise
\* DeviceError, and one at index 0 alone raises none.
C3_OnlyAtBeginning ==
    AfterApply =>
        /\ MisplacedAt(operations) # {} => error = "DeviceError"
        /\ MisplacedAt(operations) = {} => error # "DeviceError"

\* the circuit is still None and a gate comes before the first misplaced
\* state preparation: appending that gate fails first
FailsEarlier ==
    /\ circuit_before.isNone
    /\ \E j \in 1..(FirstMisplaced(operations) - 1) :
           ~IsStatePreparation(operations[j])

\* C3 amended: a state preparation at an index i > 0 makes apply raise
\* DeviceError, unless the circuit is still None and a gate precedes it, when
\* AttributeError is raised instead; without one apply raises no DeviceError.
C3_OnlyAtBeginningOnCircuit ==
    AfterApply =>
        /\ (MisplacedAt(operations) # {} /\ ~FailsEarlier) => error = "DeviceError"
        /\ (MisplacedAt(operations) # {} /\ FailsEarlier) => error = "AttributeError"
        /\ MisplacedAt(operations) = {} => error # "DeviceError"

C3_Witness ==
    /\ AfterApply
    /\ ~circuit_before.isNone
    /\ Len(operations) = 2
    /\ operations[1].name = "PauliX"
    /\ operations[2].name = "QubitStateVector"
    /\ error = "DeviceError"

\* C4: the keys of the complete operation map are the forward names and
\* name + string_for_inverse of every forward name whose entry is not None;
\* every inverse entry is an inverted operation of the forward entry's
\* parametrization, and the forward entries stay un-inverted, whatever the
\* number of devices constructed.
C4_CompleteOperationMap ==
    has_device =>
        /\ DOMAIN complete_operation_map =
               ForwardNames \cup
               {name \o StringForInverse :
                    name \in ForwardNames \ {"BasisState", "QubitStateVector"}}
        /\ Cardinality(DOMAIN complete_operation_map) = 2 * Cardinality(ForwardNames) - 2
        /\ \A name \in {"BasisState", "QubitStateVector"} :
               /\ complete_operation_map[name].isNone
               /\ operation_map[name].isNone
        /\ \A name \in ForwardNames \ {"BasisState", "QubitStateVector"} :
               /\ complete_operation_map[name \o StringForInverse] =
                      [isNone |-> FALSE, parametrization |-> name, is_inverse |-> TRUE]
               /\ complete_operation_map[name] =
                      [isNone |-> FALSE, parametrization |-> name, is_inverse |-> FALSE]
               /\ operation_map[name] = complete_operation_map[name]

C4_Witness ==
    /\ has_device
    /\ devices = "several"
    /\ "Rot.inv" \in DOMAIN complete_operation_map
    /\ complete_operation_map["Rot.inv"].is_inverse

\* the single operation of an apply that succeeded on a new circuit
SingleApplied ==
    /\ AfterApply
    /\ error = "none"
    /\ circuit_before = EmptyCircuit
    /\ Len(operations) = 1
    /\ Len(rotations) = 0

\* C5: Rot(a, b, c) becomes the three gates Rz(a), Ry(b), Rz(c) on its wire, in
\* that order; CRot(a, b, c) the three controlled gates in the same order;
\* every other name the map gives an operation becomes exactly one gate.
C5_Decomposition ==
    SingleApplied =>
        LET o == operations[1]
            a == o.parameters
            q == QubitsAtWires(o)
            on(g) == [gate |-> g, qubits |-> q]
        IN  /\ o.name = "Rot" =>
                   circuit.ops = << on(Gate("Rz", a[1])), on(Gate("Ry", a[2])),
                                    on(Gate("Rz", a[3])) >>
            /\ o.name = "CRot" =>
                   circuit.ops = << on(ControlledGate(Gate("Rz", a[1]))),
                                    on(ControlledGate(Gate("Ry", a[2]))),
                                    on(ControlledGate(Gate("Rz", a[3]))) >>
            /\ o.name \in ForwardNames \ {"BasisState", "QubitStateVector", "Rot", "CRot"}
                   => Len(circuit.ops) = 1

C5_Witness ==
    /\ SingleApplied
    /\ operations[1].name = "Rot"
    /\ operations[1].parameters = << 3, 1, 2 >>
    /\ Len(circuit.ops) = 3
    /\ circuit.ops[2].gate = Gate("Ry", 1)

\* the gates the last apply appended
Appended == SubSeq(circuit.ops, Len(circuit_before.ops) + 1, Len(circuit.ops))

\* C6: the gate of an operation on wires (w1, ..., wk) acts on
\* (self.qubits[w1], ..., self.qubits[wk]) in that order: on LineQubit(wi)
\* by default, on the wi-th entry of the list the user supplied otherwise.
C6_WireIsIndex ==
    (AfterApply /\ error = "none") =>
        /\ {Appended[i].qubits : i \in 1..Len(Appended)} =
               {QubitsAtWires(o) :
                    o \in {operations[i] : i \in {j \in 1..Len(operations) :
                                                   ~IsStatePreparation(operations[j])}}}
        /\ \A i \in 1..Len(operations) :
               \A k \in 1..Len(operations[i].wires) :
                   LET w == operations[i].wires[k]
                   IN  /\ given_qubits.isNone => qubits[w + 1] = LineQubit(w)
                       /\ (~given_qubits.isNone /\ Len(given_qubits.list) > 0)
                              => qubits[w + 1] = given_qubits.list[w + 1]
        /\ (Len(operations) = 1 /\ ~IsStatePreparation(operations[1])) =>
               /\ Len(Appended) >= 1
               /\ \A i \in 1..Len(Appended) :
                      Appended[i].qubits = QubitsAtWires(operations[1])

C6_Witness ==
    /\ SingleApplied
    /\ operations[1].name = "CNOT"
    /\ operations[1].wires = << 2, 0 >>
    /\ ~given_qubits.isNone
    /\ circuit.ops = << [gate |-> Gate("CNOT", 0),
                         qubits |-> << GridQubit(2), GridQubit(0) >>] >>

C8_RotationsLikeOperations ==
    (AfterApply /\ \A i \in 1..Len(rotations) : ~IsStatePreparation(rotations[i])) =>
        /\ circuit = ApplyBody(circuit_before, operations \o rotations, << >>).circuit
        /\ error = ApplyBody(circuit_before, operations \o rotations, << >>).error

\* C9: before the first reset the circuit is None; reset() and pre_apply()
\* leave a new empty circuit whatever the circuit held; the circuit after the
\* apply of an evaluation holds gates of that evaluation only.
C9_FreshCircuit ==
    /\ (has_device /\ ~was_reset) => circuit = NoCircuit
    /\ last_call \in {"reset", "pre_apply"} => circuit = EmptyCircuit
    /\ (AfterApply /\ was_reset /\ used = Cost(num_wires, operations)) =>
           /\ circuit_before = EmptyCircuit
           /\ ~circuit.isNone
           /\ \A i \in 1..Len(circuit.ops) :
                  \E j \in 1..Len(operations) :
                      \E k \in 1..Len(GatesOf(operations[j])) :
                          circuit.ops[i] = GatesOf(operations[j])[k]

C9_Witness ==
    /\ last_call = "pre_apply"
    /\ replaced_gates
    /\ circuit = EmptyCircuit

\* C10: when apply raises DeviceError for a state preparation at index i > 0,
\* the circuit holds what it held before the call followed by the gates of
\* operations[0..i-1], and nothing of the later operations or the rotations.
C10_NotAtomic ==
    (AfterApply /\ error = "DeviceError") =>
        /\ MisplacedAt(operations) # {}
        /\ circuit.isNone = circuit_before.isNone
        /\ circuit.ops =
               circuit_before.ops \o
               GatesOfList(SubSeq(operations, 1, FirstMisplaced(operations) - 1))

C10_Witness ==
    /\ AfterApply
    /\ error = "DeviceError"
    /\ circuit_before = EmptyCircuit
    /\ Len(operations) = 2
    /\ operations[1].name = "Rot"
    /\ Len(rotations) = 1
    /\ Len(circuit.ops) = 3

====
